---- MODULE Spec2Model ----
(***************************************************************************)
(* Model of the currency converter: converter.py (convert, _rate_to_rub,   *)
(* get_supported_codes), data_fetcher.py (fetch_cbr_rates and its helpers) *)
(* and the cached page script of app.py.                                   *)
(*                                                                         *)
(* Strings are sequences of one-character tokens, so that upper(), strip() *)
(* and the numeric parsing of cells are computed, not assumed.  A float is *)
(* a record [k, n, d]: k = "fin" is the rational n/d in lowest terms with  *)
(* d > 0; k = "nan", "inf", "ninf" are the IEEE specials.  Finite          *)
(* arithmetic is exact: binary rounding is not modelled.                   *)
(***************************************************************************)
EXTENDS Integers, Sequences, FiniteSets, TLC

VARIABLES
    \* ---- one call of converter.convert
    amount, code_from, code_to, rates, cpc, result,
    \* ---- one call of data_fetcher.fetch_cbr_rates
    env, doc, fpc, getCount, parsed, tables, table, fetched,
    \* ---- the page script of app.py over the shared cache of load_rates
    cache, spc, srates, fetchLog, conv, stale

convVars  == <<amount, code_from, code_to, rates, cpc, result>>
fetchVars == <<env, doc, fpc, getCount, parsed, tables, table, fetched>>
appVars   == <<cache, spc, srates, fetchLog, conv, stale>>
vars      == <<convVars, fetchVars, appVars>>

(***************************************************************************)
(* Bounds of the model.                                                    *)
(***************************************************************************)
MaxRows    == 2   \* rows of a table
MaxTables  == 3   \* tables of a document
MaxFetches == 2   \* fetches performed by the page script

(***************************************************************************)
(* Floats.                                                                 *)
(***************************************************************************)
RECURSIVE GCD(_, _)
GCD(a, b) == IF b = 0 THEN a ELSE GCD(b, a % b)

Abs(x) == IF x < 0 THEN -x ELSE x

Fin(n, d) ==
    LET s == IF d < 0 THEN -1 ELSE 1
        g == GCD(Abs(n), Abs(d))
    IN  [k |-> "fin", n |-> (s * n) \div g, d |-> (s * d) \div g]

Int2F(i) == [k |-> "fin", n |-> i, d |-> 1]
NaN      == [k |-> "nan",  n |-> 0, d |-> 1]
PosInf   == [k |-> "inf",  n |-> 0, d |-> 1]
NegInf   == [k |-> "ninf", n |-> 0, d |-> 1]
NotANumber == [k |-> "str", n |-> 0, d |-> 1]   \* an argument float() rejects

IsFin(x)  == x.k = "fin"
Sign(x)   == CASE x.k = "inf"  -> 1
               [] x.k = "ninf" -> -1
               [] x.k = "fin"  -> (IF x.n > 0 THEN 1 ELSE IF x.n < 0 THEN -1 ELSE 0)
               [] OTHER        -> 0
IsZero(x) == x.k = "fin" /\ x.n = 0            \* x == 0
Lt0(x)    == x.k # "nan" /\ Sign(x) < 0        \* x < 0   (False for NaN)
Le0(x)    == x.k # "nan" /\ Sign(x) <= 0       \* x <= 0  (False for NaN)
Gt0(x)    == x.k # "nan" /\ Sign(x) > 0        \* x > 0   (False for NaN)

\* x * y on Python floats
FMul(x, y) ==
    IF x.k = "nan" \/ y.k = "nan" THEN NaN
    ELSE IF IsFin(x) /\ IsFin(y) THEN Fin(x.n * y.n, x.d * y.d)
    ELSE IF Sign(x) * Sign(y) = 0 THEN NaN
    ELSE IF Sign(x) * Sign(y) > 0 THEN PosInf ELSE NegInf

\* x / y on Python floats, y # 0 (a zero divisor raises, see Divide)
FDiv(x, y) ==
    IF x.k = "nan" \/ y.k = "nan" THEN NaN
    ELSE IF IsFin(x) /\ IsFin(y) THEN Fin(x.n * y.d, x.d * y.n)
    ELSE IF ~IsFin(x) /\ ~IsFin(y) THEN NaN
    ELSE IF IsFin(x) THEN Int2F(0)
    ELSE IF Sign(x) * Sign(y) > 0 THEN PosInf ELSE NegInf

(***************************************************************************)
(* Outcomes of a call: a returned value or a raised exception.  msg is the *)
(* pair <<message, currency code named in it>>.                            *)
(***************************************************************************)
Return(v)        == [kind |-> "return", exc |-> "", msg |-> <<"", <<>>>>, val |-> v]
Raise(e, m)      == [kind |-> "raise", exc |-> e, msg |-> m, val |-> NaN]
Returned(o)      == o.kind = "return"
Raised(o, e)     == o.kind = "raise" /\ o.exc = e

\* the Python expression x / y: a zero divisor raises ZeroDivisionError
Divide(x, y) ==
    IF IsZero(y) THEN Raise("ZeroDivisionError", <<"float division by zero", <<>>>>)
    ELSE Return(FDiv(x, y))

(***************************************************************************)
(* Strings: str.upper() and str.strip().                                   *)
(***************************************************************************)
Whitespace == {" ", "NBSP"}

UpperChar(c) ==
    CASE c = "u" -> "U" [] c = "s" -> "S" [] c = "d" -> "D"
      [] c = "r" -> "R" [] c = "b" -> "B" [] c = "h" -> "H"
      [] c = "f" -> "F" [] OTHER -> c

Upper(s) == [i \in 1..Len(s) |-> UpperChar(s[i])]

RECURSIVE LStrip(_)
LStrip(s) == IF s # <<>> /\ Head(s) \in Whitespace THEN LStrip(Tail(s)) ELSE s

RECURSIVE RStrip(_)
RStrip(s) ==
    IF s # <<>> /\ s[Len(s)] \in Whitespace
    THEN RStrip(SubSeq(s, 1, Len(s) - 1)) ELSE s

Strip(s) == RStrip(LStrip(s))

\* str(code).upper().strip()
NormCode(s) == Strip(Upper(s))

USD == <<"U", "S", "D">>
HUF == <<"H", "U", "F">>
RUB == <<"R", "U", "B">>

(***************************************************************************)
(* A DataFrame of rates: a sequence of rows; CharCode is the index label   *)
(* of the row.                                                             *)
(***************************************************************************)
Row(c, nom, nm, v) == [CharCode |-> c, Nominal |-> nom, Name |-> nm, Value |-> v]

\* the row positions whose index label is code
Loc(df, code) == {i \in 1..Len(df) : df[i].CharCode = code}

\* `code in rates.index`
InIndex(df, code) == Loc(df, code) # {}

\* get_supported_codes: list(map(str, rates.index))
get_supported_codes(df) == [i \in 1..Len(df) |-> df[i].CharCode]

\* _rate_to_rub: the price of one unit of `code` in RUB.  rates.loc[code, col]
\* is a scalar when the label is unique and a Series otherwise, which float()
\* rejects with TypeError.
RateBadNominal(df, code) ==
    LET c == NormCode(code)
    IN  IF ~InIndex(df, c) THEN Raise("ConversionError", <<"missing", c>>)
        ELSE IF Cardinality(Loc(df, c)) > 1
             THEN Raise("TypeError", <<"float() of a Series", c>>)
        ELSE LET r == df[CHOOSE i \in Loc(df, c) : TRUE]
             IN  Divide(r.Value, r.Nominal)

RateIgnoresNominal(df, code) ==
    LET c == NormCode(code)
    IN  IF ~InIndex(df, c) THEN Raise("ConversionError", <<"missing", c>>)
        ELSE IF Cardinality(Loc(df, c)) > 1
             THEN Raise("TypeError", <<"float() of a Series", c>>)
        ELSE LET r == df[CHOOSE i \in Loc(df, c) : TRUE]
             IN  IF Le0(r.Nominal)
                 THEN Raise("ConversionError", <<"nominal", c>>)
                 ELSE Return(r.Value)

_rate_to_rub(df, code) ==
    LET c == NormCode(code)
    IN  IF ~InIndex(df, c) THEN Raise("ConversionError", <<"missing", c>>)
        ELSE IF Cardinality(Loc(df, c)) > 1
             THEN Raise("TypeError", <<"float() of a Series", c>>)
        ELSE LET r == df[CHOOSE i \in Loc(df, c) : TRUE]
             IN  IF Le0(r.Nominal)
                 THEN Raise("ConversionError", <<"nominal", c>>)
                 ELSE Divide(r.Value, r.Nominal)

\* convert(amount, code_from, code_to, rates)
ConvertLooksUpFirst(a, cf, ct, df) ==
    IF a.k = "str" THEN Raise("ConversionError", <<"amount is not a number", <<>>>>)
    ELSE IF Lt0(a) THEN Raise("ConversionError", <<"amount is negative", <<>>>>)
    ELSE LET src == NormCode(cf)
             dst == NormCode(ct)
             rs  == _rate_to_rub(df, src)
             rd  == _rate_to_rub(df, dst)
         IN  IF ~Returned(rs) THEN rs
             ELSE IF ~Returned(rd) THEN rd
             ELSE IF src = dst THEN Return(a)
             ELSE IF IsZero(rd.val)
                  THEN Raise("ConversionError", <<"zero rate", dst>>)
             ELSE Divide(FMul(a, rs.val), rd.val)

convert(a, cf, ct, df) ==
    IF a.k = "str" THEN Raise("ConversionError", <<"amount is not a number", <<>>>>)
    ELSE IF Lt0(a) THEN Raise("ConversionError", <<"amount is negative", <<>>>>)
    ELSE LET src == NormCode(cf)
             dst == NormCode(ct)
         IN  IF src = dst THEN Return(a)
             ELSE LET rs == _rate_to_rub(df, src)
                  IN  IF ~Returned(rs) THEN rs
                      ELSE LET rd == _rate_to_rub(df, dst)
                           IN  IF ~Returned(rd) THEN rd
                               ELSE IF IsZero(rd.val)
                                    THEN Raise("ConversionError", <<"zero rate", dst>>)
                               ELSE Divide(FMul(a, rs.val), rd.val)

(***************************************************************************)
(* One call of convert.  The arguments are drawn from bounded sets that    *)
(* hold every class of amount and hand-built tables that break the table   *)
(* invariants.                                                             *)
(***************************************************************************)
Amounts ==
    {Int2F(0), Int2F(1), Int2F(50), Int2F(100), Fin(1, 2), Int2F(-1),
     NaN, PosInf, NegInf, NotANumber}

ArgCodes == {USD, <<" ", "u", "s", "d", " ">>, HUF, RUB}

IndexCodes == {USD, HUF, RUB}

\* <<Nominal, Value>> of a row
Quotes ==
    {<<Int2F(1), Int2F(90)>>, <<Int2F(100), Int2F(25)>>, <<Int2F(1), Int2F(1)>>,
     <<Int2F(0), Int2F(90)>>, <<Int2F(-1), Int2F(90)>>, <<Int2F(1), Int2F(0)>>}

ConvRows == {Row(c, q[1], "name", q[2]) : c \in IndexCodes, q \in Quotes}

SeqsUpTo(S, n) == UNION {[1..k -> S] : k \in 0..n}

ConvTables == SeqsUpTo(ConvRows, MaxRows)

NoOutcome == [kind |-> "none", exc |-> "", msg |-> <<"", <<>>>>, val |-> NaN]

ConvIdle ==
    /\ amount = NaN /\ code_from = <<>> /\ code_to = <<>>
    /\ rates = <<>> /\ cpc = "off" /\ result = NoOutcome

FetchIdle ==
    /\ env = [raises |-> FALSE, status |-> 0, lxml |-> FALSE] /\ doc = <<>> /\ fpc = "off" /\ getCount = 0
    /\ parsed = FALSE /\ tables = <<>> /\ table = 0 /\ fetched = NoOutcome

AppIdle ==
    /\ cache = <<>> /\ spc = <<>> /\ srates = <<>> /\ fetchLog = <<>>
    /\ conv = <<>> /\ stale = {}

ConvInit ==
    /\ amount \in Amounts
    /\ code_from \in ArgCodes
    /\ code_to \in ArgCodes
    /\ rates \in ConvTables
    /\ cpc = "call"
    /\ result = NoOutcome
    /\ FetchIdle /\ AppIdle

Convert ==
    /\ cpc = "call"
    /\ result' = convert(amount, code_from, code_to, rates)
    /\ cpc' = "done"
    /\ UNCHANGED <<amount, code_from, code_to, rates, fetchVars, appVars>>

ConvNext == Convert

SpecConvert == ConvInit /\ [][ConvNext]_vars

(***************************************************************************)
(* data_fetcher.py.  A raw table, as pandas.read_html yields it, is a      *)
(* record [columns, rows]: the set of its column labels and its rows, each *)
(* a function from the labels to the text of the cell (astype(str)).  The  *)
(* Russian column labels are transliterated: "Tsifr. kod", "Bukv. kod",    *)
(* "Edinits", "Valyuta", "Kurs".                                           *)
(***************************************************************************)
expected_cols == {"Tsifr. kod", "Bukv. kod", "Edinits", "Valyuta", "Kurs"}

\* expected_cols.issubset(set(map(str, tb.columns)))
HasSignature(tb) == expected_cols \subseteq tb.columns

\* _select_cbr_table: the position of the first table with the expected
\* columns, 0 when the loop ends without one (DataParseError)
SelectByPosition(tbs) == IF tbs # <<>> THEN 1 ELSE 0

_select_cbr_table(tbs) ==
    IF \E i \in 1..Len(tbs) : HasSignature(tbs[i])
    THEN CHOOSE i \in 1..Len(tbs) :
            /\ HasSignature(tbs[i])
            /\ \A j \in 1..(i - 1) : ~HasSignature(tbs[j])
    ELSE 0

\* .str.replace("\xa0", "").str.replace(" ", "")
RECURSIVE RemoveSpaces(_)
RemoveSpaces(s) ==
    IF s = <<>> THEN <<>>
    ELSE IF Head(s) \in Whitespace THEN RemoveSpaces(Tail(s))
    ELSE <<Head(s)>> \o RemoveSpaces(Tail(s))

\* .str.replace(",", ".")
CommaToPeriod(s) == [i \in 1..Len(s) |-> IF s[i] = "," THEN "." ELSE s[i]]

Digits == {"0", "1", "2", "3", "4", "5", "6", "7", "8", "9"}

DigitVal(c) ==
    CASE c = "0" -> 0 [] c = "1" -> 1 [] c = "2" -> 2 [] c = "3" -> 3
      [] c = "4" -> 4 [] c = "5" -> 5 [] c = "6" -> 6 [] c = "7" -> 7
      [] c = "8" -> 8 [] c = "9" -> 9

AllDigits(s) == s # <<>> /\ \A i \in 1..Len(s) : s[i] \in Digits

RECURSIVE DigitsVal(_)
DigitsVal(s) ==
    IF s = <<>> THEN 0
    ELSE 10 * DigitsVal(SubSeq(s, 1, Len(s) - 1)) + DigitVal(s[Len(s)])

RECURSIVE Pow10(_)
Pow10(n) == IF n = 0 THEN 1 ELSE 10 * Pow10(n - 1)

\* pd.to_numeric of one string, for the decimal forms [-]digits[.digits];
\* any other text is "Unable to parse string" (ok = FALSE)
ParseNumber(s) ==
    LET neg   == s # <<>> /\ Head(s) = "-"
        body  == IF neg THEN Tail(s) ELSE s
        dots  == {i \in 1..Len(body) : body[i] = "."}
        sgn   == IF neg THEN -1 ELSE 1
    IN  IF dots = {}
        THEN IF AllDigits(body)
             THEN [ok |-> TRUE, val |-> Int2F(sgn * DigitsVal(body))]
             ELSE [ok |-> FALSE, val |-> NaN]
        ELSE LET p  == CHOOSE i \in dots : TRUE
                 ip == SubSeq(body, 1, p - 1)
                 fp == SubSeq(body, p + 1, Len(body))
             IN  IF Cardinality(dots) = 1 /\ AllDigits(ip) /\ AllDigits(fp)
                 THEN [ok |-> TRUE,
                       val |-> Fin(sgn * (DigitsVal(ip) * Pow10(Len(fp)) + DigitsVal(fp)),
                                   Pow10(Len(fp)))]
                 ELSE [ok |-> FALSE, val |-> NaN]

\* the Nominal and Value columns as _normalize_rates prepares them
NominalOf(cell) == ParseNumber(RemoveSpaces(cell))
ValueOf(cell)   == ParseNumber(CommaToPeriod(RemoveSpaces(cell)))

\* code points, for the order sort_index uses on labels
CodePoint(c) ==
    CASE c = " " -> 32 [] c = "NBSP" -> 160
      [] c = "B" -> 66 [] c = "D" -> 68 [] c = "F" -> 70 [] c = "H" -> 72
      [] c = "R" -> 82 [] c = "S" -> 83 [] c = "U" -> 85
      [] c = "b" -> 98 [] c = "d" -> 100 [] c = "f" -> 102 [] c = "h" -> 104
      [] c = "r" -> 114 [] c = "s" -> 115 [] c = "u" -> 117
      [] OTHER -> 120

RECURSIVE StrLess(_, _)
StrLess(s, t) ==
    IF t = <<>> THEN FALSE
    ELSE IF s = <<>> THEN TRUE
    ELSE IF CodePoint(Head(s)) # CodePoint(Head(t))
         THEN CodePoint(Head(s)) < CodePoint(Head(t))
    ELSE StrLess(Tail(s), Tail(t))

\* df.sort_index(): ascending by label, rows of equal label in their order
RECURSIVE InsertRow(_, _)
InsertRow(sorted, r) ==
    IF sorted = <<>> THEN <<r>>
    ELSE IF StrLess(r.CharCode, Head(sorted).CharCode)
         THEN <<r>> \o sorted
    ELSE <<Head(sorted)>> \o InsertRow(Tail(sorted), r)

RECURSIVE SortIndex(_)
SortIndex(df) ==
    IF df = <<>> THEN <<>>
    ELSE InsertRow(SortIndex(SubSeq(df, 1, Len(df) - 1)), df[Len(df)])

RubRow == Row(RUB, Int2F(1), "Rossiyskiy rubl", Int2F(1))

\* `if "RUB" not in df.index: df.loc["RUB"] = {...}`
AddRub(df) == IF InIndex(df, RUB) THEN df ELSE Append(df, RubRow)

\* _normalize_rates(df_raw): the normalized table, or the ValueError that
\* pd.to_numeric(errors="raise") raises on the first column it cannot parse
_normalize_rates(tb) ==
    LET raw == tb.rows
        n   == Len(raw)
    IN  IF \E i \in 1..n : ~NominalOf(raw[i]["Edinits"]).ok
        THEN Raise("ValueError", <<"Unable to parse string (Nominal)", <<>>>>)
        ELSE IF \E i \in 1..n : ~ValueOf(raw[i]["Kurs"]).ok
        THEN Raise("ValueError", <<"Unable to parse string (Value)", <<>>>>)
        ELSE LET df == [i \in 1..n |->
                          Row(NormCode(raw[i]["Bukv. kod"]),
                              NominalOf(raw[i]["Edinits"]).val,
                              raw[i]["Valyuta"],
                              ValueOf(raw[i]["Kurs"]).val)]
             IN  Return(SortIndex(AddRub(df)))

(***************************************************************************)
(* One call of fetch_cbr_rates, step by step.  env is what the call meets: *)
(* whether requests.get raises, the status of the response, whether the    *)
(* HTML parser is importable; doc is the tables of the page.               *)
(***************************************************************************)
Envs ==
    {[raises |-> TRUE,  status |-> 0,   lxml |-> TRUE],
     [raises |-> FALSE, status |-> 200, lxml |-> TRUE],
     [raises |-> FALSE, status |-> 200, lxml |-> FALSE],
     [raises |-> FALSE, status |-> 404, lxml |-> TRUE],
     [raises |-> FALSE, status |-> 500, lxml |-> TRUE]}

RawRow(cols, code, units, price) ==
    [c \in cols |->
        CASE c = "Bukv. kod" -> code
          [] c = "Edinits"   -> units
          [] c = "Kurs"      -> price
          [] c = "Valyuta"   -> "name"
          [] OTHER           -> <<"x">>]

\* <<Bukv. kod, Edinits, Kurs>> of the source rows tried
SourceCells ==
    {<<USD, <<"1">>, <<"9", "0", ",", "0", "0">>>>,
     <<HUF, <<"1", "0", "0">>, <<"2", "5", ",", "0", "0">>>>,
     <<RUB, <<"1">>, <<"1">>>>,
     <<<<"r", "u", "b">>, <<"1", "0">>, <<"5", ",", "0">>>>,
     <<<<" ", "u", "s", "d", " ">>, <<"1">>, <<"9", "1", ",", "5">>>>,
     <<USD, <<"0">>, <<"9", "0", ",", "0", "0">>>>,
     <<USD, <<"-", "1">>, <<"9", "0", ",", "0", "0">>>>,
     <<USD, <<"a", "b", "c">>, <<"9", "0", ",", "0", "0">>>>,
     <<USD, <<"1", ".", "5">>, <<"9", "0", ",", "0", "0">>>>,
     <<USD, <<"1", "NBSP", "0", "0", "0">>, <<"9", "0", ",", "0", "0">>>>,
     <<USD, <<"1">>, <<"0">>>>,
     <<USD, <<"1">>, <<"-", "1", ",", "5">>>>,
     <<USD, <<"1">>, <<"a", "b", "c">>>>,
     <<USD, <<"1">>, <<"1", " ", "2", "3", "4", ",", "5">>>>}

ColumnSets ==
    {expected_cols,
     expected_cols \cup {"Izmenenie"},
     expected_cols \ {"Kurs"},
     {"Data", "Znachenie"}}

RawRows(cols) == {RawRow(cols, c[1], c[2], c[3]) : c \in SourceCells}

\* documents of up to MaxTables tables of any signature, with a short body
LayoutTables ==
    {[columns |-> cols, rows |-> <<RawRow(cols, c, <<"1">>, <<"2">>)>>] :
        cols \in ColumnSets, c \in {USD, HUF}}

\* documents of one rate table with up to MaxRows source rows
RateTables ==
    {[columns |-> expected_cols, rows |-> b] :
        b \in SeqsUpTo(RawRows(expected_cols), MaxRows)}

Docs == SeqsUpTo(LayoutTables, MaxTables) \cup {<<t>> : t \in RateTables}

FetchInit ==
    /\ env \in Envs
    /\ doc \in Docs
    /\ fpc = "get"
    /\ getCount = 0
    /\ parsed = FALSE
    /\ tables = <<>>
    /\ table = 0
    /\ fetched = NoOutcome
    /\ ConvIdle /\ AppIdle

\* resp = requests.get(...), RequestException -> DataFetchError
Get ==
    /\ fpc = "get"
    /\ getCount' = getCount + 1
    /\ IF env.raises
       THEN /\ fetched' = Raise("DataFetchError", <<"network", <<>>>>)
            /\ fpc' = "done"
       ELSE /\ fetched' = fetched
            /\ fpc' = "status"
    /\ UNCHANGED <<env, doc, parsed, tables, table, convVars, appVars>>

\* if resp.status_code != 200: raise DataFetchError
CheckStatus ==
    /\ fpc = "status"
    /\ IF env.status # 200
       THEN /\ fetched' = Raise("DataFetchError", <<"status", <<>>>>)
            /\ fpc' = "done"
       ELSE /\ fetched' = fetched
            /\ fpc' = "read_html"
    /\ UNCHANGED <<env, doc, getCount, parsed, tables, table, convVars, appVars>>

\* tables = pd.read_html(...): ValueError when the page has no table,
\* ImportError without a parser; both become DataParseError
ReadHtml ==
    /\ fpc = "read_html"
    /\ parsed' = TRUE
    /\ IF ~env.lxml \/ doc = <<>>
       THEN /\ fetched' = Raise("DataParseError", <<"read_html", <<>>>>)
            /\ fpc' = "done"
            /\ tables' = tables
       ELSE /\ fetched' = fetched
            /\ fpc' = "select"
            /\ tables' = doc
    /\ UNCHANGED <<env, doc, getCount, table, convVars, appVars>>

\* `if not tables: raise`, then table = _select_cbr_table(tables)
Select ==
    /\ fpc = "select"
    /\ IF tables = <<>> \/ _select_cbr_table(tables) = 0
       THEN /\ fetched' = Raise("DataParseError", <<"no rate table", <<>>>>)
            /\ fpc' = "done"
            /\ table' = table
       ELSE /\ fetched' = fetched
            /\ fpc' = "normalize"
            /\ table' = _select_cbr_table(tables)
    /\ UNCHANGED <<env, doc, getCount, parsed, tables, convVars, appVars>>

\* return _normalize_rates(table)
Normalize ==
    /\ fpc = "normalize"
    /\ fetched' = _normalize_rates(tables[table])
    /\ fpc' = "done"
    /\ UNCHANGED <<env, doc, getCount, parsed, tables, table, convVars, appVars>>

FetchNext == Get \/ CheckStatus \/ ReadHtml \/ Select \/ Normalize

SpecFetch == FetchInit /\ [][FetchNext]_vars

\* fetch_cbr_rates(url, timeout, user_agent) as one call
fetch_cbr_rates(e, d) ==
    IF e.raises THEN Raise("DataFetchError", <<"network", <<>>>>)
    ELSE IF e.status # 200 THEN Raise("DataFetchError", <<"status", <<>>>>)
    ELSE IF ~e.lxml \/ d = <<>> THEN Raise("DataParseError", <<"read_html", <<>>>>)
    ELSE IF _select_cbr_table(d) = 0
         THEN Raise("DataParseError", <<"no rate table", <<>>>>)
    ELSE _normalize_rates(d[_select_cbr_table(d)])

(***************************************************************************)
(* app.py: the page script.  Every interaction of a browser session runs   *)
(* the script from the top; sessions run in threads of their own and share *)
(* the st.cache_data entry of load_rates() (ttl 3600 s), which keeps the   *)
(* value a call returned and nothing when the call raised.                 *)
(*   cache     <<>> or <<[table, fetch]>>: the entry and the fetch it is of *)
(*   spc[s]    where the run of session s stands, and whether the run was   *)
(*             started by the convert button                               *)
(*   srates[s] the run's local `rates`                                     *)
(*   fetchLog  the outcome of every fetch_cbr_rates call so far            *)
(*   conv      <<>> or the last conversion executed                        *)
(*   stale     the fetches whose table a refresh or the ttl discarded      *)
(***************************************************************************)
Sessions == {"s1", "s2"}

OkEnv == [raises |-> FALSE, status |-> 200, lxml |-> TRUE]

PageOf(cells) ==
    <<[columns |-> expected_cols,
       rows |-> [i \in 1..Len(cells) |->
                    RawRow(expected_cols, cells[i][1], cells[i][2], cells[i][3])]]>>

\* what a fetch of the page script can meet: <<env, doc>>
AppInputs ==
    {<<OkEnv, PageOf(<<<<USD, <<"1">>, <<"9", "0", ",", "0", "0">>>>,
                       <<HUF, <<"1", "0", "0">>, <<"2", "5", ",", "0", "0">>>>>>)>>,
     <<OkEnv, PageOf(<<<<USD, <<"1">>, <<"9", "1", ",", "5">>>>>>)>>,
     <<OkEnv, PageOf(<<<<USD, <<"a", "b", "c">>, <<"9", "0", ",", "0", "0">>>>>>)>>,
     <<OkEnv, <<[columns |-> {"Data", "Znachenie"}, rows |-> <<>>]>>>>,
     <<[raises |-> TRUE, status |-> 0, lxml |-> TRUE], <<>>>>}

\* st.number_input(min_value=0.0, value=100.0)
AppAmounts == {Int2F(0), Int2F(100)}

NoRates == [table |-> <<>>, fetch |-> 0]
Idle    == [pc |-> "idle", click |-> FALSE]

AppInit ==
    /\ cache = <<>>
    /\ spc = [s \in Sessions |-> Idle]
    /\ srates = [s \in Sessions |-> NoRates]
    /\ fetchLog = <<>>
    /\ conv = <<>>
    /\ stale = {}
    /\ ConvIdle /\ FetchIdle

Cached == {cache[i].fetch : i \in 1..Len(cache)}

\* load_rates.clear()
ClearKeepsEntry(c) == c
clear(c) == <<>>

\* what st.cache_data keeps of a call's outcome
StoreAnyOutcome(out, id) ==
    <<[table |-> IF Returned(out) THEN out.val ELSE <<>>, fetch |-> id]>>
store(out, id) ==
    IF Returned(out) THEN <<[table |-> out.val, fetch |-> id]>> ELSE <<>>

\* the "Obnovit kursy" button: load_rates.clear(), then st.rerun()
ClickRefresh(s) ==
    /\ spc[s].pc = "idle"
    /\ cache' = clear(cache)
    /\ stale' = stale \cup Cached
    /\ spc' = [spc EXCEPT ![s] = [pc |-> "load", click |-> FALSE]]
    /\ srates' = [srates EXCEPT ![s] = NoRates]
    /\ UNCHANGED <<fetchLog, conv, convVars, fetchVars>>

\* any other interaction starts a run; click says it was the convert button
StartRun(s) ==
    /\ spc[s].pc = "idle"
    /\ \E b \in BOOLEAN : spc' = [spc EXCEPT ![s] = [pc |-> "load", click |-> b]]
    /\ srates' = [srates EXCEPT ![s] = NoRates]
    /\ UNCHANGED <<cache, fetchLog, conv, stale, convVars, fetchVars>>

\* rates = load_rates() with a cached entry
LoadHit(s) ==
    /\ spc[s].pc = "load"
    /\ cache # <<>>
    /\ srates' = [srates EXCEPT ![s] = cache[1]]
    /\ spc' = [spc EXCEPT ![s].pc = "widgets"]
    /\ UNCHANGED <<cache, fetchLog, conv, stale, convVars, fetchVars>>

\* rates = load_rates() without one: fetch_cbr_rates() runs; its table is
\* cached and used, its exception is shown and st.stop() ends the run
LoadMiss(s) ==
    /\ spc[s].pc = "load"
    /\ cache = <<>>
    /\ Len(fetchLog) < MaxFetches
    /\ \E in \in AppInputs :
          LET out == fetch_cbr_rates(in[1], in[2])
              id  == Len(fetchLog) + 1
          IN  /\ fetchLog' = Append(fetchLog, out)
              /\ cache' = store(out, id)
              /\ IF cache' # <<>>
                 THEN /\ srates' = [srates EXCEPT ![s] = cache'[1]]
                      /\ spc' = [spc EXCEPT ![s].pc = "widgets"]
                 ELSE /\ srates' = srates
                      /\ spc' = [spc EXCEPT ![s] = Idle]
    /\ UNCHANGED <<conv, stale, convVars, fetchVars>>

\* the rest of the script: the select boxes over get_supported_codes(rates),
\* the amount, and convert(...) when the run was started by the button
RenderAndConvert(s) ==
    /\ spc[s].pc = "widgets"
    /\ IF spc[s].click
       THEN \E a \in AppAmounts :
            \E i, j \in 1..Len(get_supported_codes(srates[s].table)) :
               LET codes == get_supported_codes(srates[s].table)
               IN  conv' = <<[table |-> srates[s].table,
                              fetch |-> srates[s].fetch,
                              out |-> convert(a, codes[i], codes[j], srates[s].table)]>>
       ELSE conv' = conv
    /\ spc' = [spc EXCEPT ![s] = Idle]
    /\ UNCHANGED <<cache, srates, fetchLog, stale, convVars, fetchVars>>

\* the ttl of the cached entry runs out
Expire ==
    /\ cache # <<>>
    /\ cache' = <<>>
    /\ stale' = stale \cup Cached
    /\ UNCHANGED <<spc, srates, fetchLog, conv, convVars, fetchVars>>

AppNext ==
    \/ \E s \in Sessions : ClickRefresh(s)
    \/ \E s \in Sessions : StartRun(s)
    \/ \E s \in Sessions : LoadHit(s)
    \/ \E s \in Sessions : LoadMiss(s)
    \/ \E s \in Sessions : RenderAndConvert(s)
    \/ Expire

SpecApp == AppInit /\ [][AppNext]_vars

(***************************************************************************)
(* Properties of fetch_cbr_rates, stated for SpecFetch.                    *)
(***************************************************************************)
FetchReturned == fpc = "done" /\ Returned(fetched)

\* the steps of SpecFetch end as the one call of fetch_cbr_rates does
FetchStepsAgree == fpc = "done" => fetched = fetch_cbr_rates(env, doc)

\* the rows of a table whose label is the pivot currency
PivotRows(df) == {i \in 1..Len(df) : df[i].CharCode = RUB}

\* C4: every table fetch returns has exactly one RUB entry, and it has
\* nominal 1 and value 1.0, also when the source table has a row whose code
\* normalizes to RUB, whatever that row carries.
C4_PivotComplete ==
    FetchReturned =>
        /\ Cardinality(PivotRows(fetched.val)) = 1
        /\ \A i \in PivotRows(fetched.val) :
              /\ fetched.val[i].Nominal = Int2F(1)
              /\ fetched.val[i].Value = Int2F(1)

\* C5: in every table fetch returns the code is a unique key: no two entries
\* share a code after upper/strip.
C5_CodeIsKey ==
    FetchReturned =>
        \A i, j \in 1..Len(fetched.val) :
            NormCode(fetched.val[i].CharCode) = NormCode(fetched.val[j].CharCode)
                => i = j

\* C6: every non-pivot entry of a table fetch returns has nominal > 0 and
\* value > 0.
C6_PositiveEntries ==
    FetchReturned =>
        \A i \in 1..Len(fetched.val) :
            fetched.val[i].CharCode # RUB
                => Gt0(fetched.val[i].Nominal) /\ Gt0(fetched.val[i].Value)

Retrieved == ~env.raises /\ env.status = 200

\* C7: the table handed to normalization is the first one in document order
\* whose columns include the five expected labels, wherever it stands; a
\* document with no table, or with none that matches, ends in DataParseError.
C7_DiscoveryBySignature ==
    /\ (fpc = "normalize" \/ (fpc = "done" /\ table # 0)) =>
          /\ table \in 1..Len(doc)
          /\ expected_cols \subseteq doc[table].columns
          /\ \A j \in 1..(table - 1) : ~(expected_cols \subseteq doc[j].columns)
    /\ (fpc = "done" /\ Retrieved) =>
          IF \E i \in 1..Len(doc) : expected_cols \subseteq doc[i].columns
          THEN env.lxml => table # 0
          ELSE table = 0 /\ Raised(fetched, "DataParseError")

C7_Witness ==
    /\ fpc = "done" /\ Len(doc) = 3 /\ table = 3
    /\ ~(expected_cols \subseteq doc[1].columns)
    /\ ~(expected_cols \subseteq doc[2].columns)
    /\ Returned(fetched)

IsInteger(x) == IsFin(x) /\ x.d = 1

\* C8: a call of fetch ends in a normalized table, in a DataFetchError (one
\* GET, nothing parsed) or in a DataParseError (any anomaly of discovery or
\* normalization, a units cell that is no integer and a price cell that is no
\* number included), and in nothing else.
C8_ThreeOutcomes ==
    fpc = "done" =>
        /\ getCount = 1
        /\ \/ /\ Returned(fetched)
              /\ \A i \in 1..Len(fetched.val) :
                    /\ IsInteger(fetched.val[i].Nominal)
                    /\ IsFin(fetched.val[i].Value)
                    /\ fetched.val[i].CharCode = NormCode(fetched.val[i].CharCode)
           \/ Raised(fetched, "DataFetchError") /\ ~parsed
           \/ Raised(fetched, "DataParseError")

(***************************************************************************)
(* Properties of the cached page script, stated for SpecApp.               *)
(***************************************************************************)
\* r is the whole table that fetch number r.fetch returned
IsFetchResult(r) ==
    /\ r.fetch \in 1..Len(fetchLog)
    /\ fetchLog[r.fetch] = Return(r.table)

FetchFailed ==
    /\ Len(fetchLog') = Len(fetchLog) + 1
    /\ ~Returned(fetchLog'[Len(fetchLog')])

C10_State ==
    /\ \A s \in Sessions : spc[s].pc = "widgets" => IsFetchResult(srates[s])
    /\ conv # <<>> => IsFetchResult(conv[1])
    /\ cache # <<>> => IsFetchResult(cache[1]) /\ cache[1].fetch \notin stale

C10_Step ==
    \* a failed fetch publishes nothing and ends the run before any conversion
    /\ FetchFailed =>
          /\ cache' = <<>>
          /\ conv' = conv
          /\ \A s \in Sessions : spc[s].pc = "load" => spc'[s].pc \in {"load", "idle"}
    \* a load never hands out a discarded table: it is of a later fetch
    /\ \A s \in Sessions :
          (spc[s].pc = "load" /\ spc'[s].pc = "widgets") =>
              /\ srates'[s] = cache'[1]
              /\ \A k \in stale' : srates'[s].fetch > k
    \* a conversion uses the table its own run loaded
    /\ conv' # conv =>
          \E s \in Sessions :
              /\ spc[s].pc = "widgets" /\ spc[s].click
              /\ conv'[1].table = srates[s].table
              /\ conv'[1].fetch = srates[s].fetch

ValidAmount(a) == IsFin(a) /\ a.n >= 0

\* the spec's RateTable is a mapping keyed by code: no label repeats
IsRateTable(df) == \A i, j \in 1..Len(df) : df[i].CharCode = df[j].CharCode => i = j

EntryOf(df, c) == df[CHOOSE i \in Loc(df, c) : TRUE]

src == NormCode(code_from)
dst == NormCode(code_to)

\* C1: convert fails with ConversionError, and returns no value, for every
\* amount that is negative, NaN, +infinity or -infinity, whatever the codes
\* and the table are.
C1_InvalidAmountRejected ==
    (cpc = "done" /\ amount.k # "str" /\ (Lt0(amount) \/ ~IsFin(amount)))
        => Raised(result, "ConversionError")

\* C2: for a valid amount and codes equal after upper/strip, convert returns
\* exactly the amount, whatever the table holds (code absent, repeated, zero
\* or negative nominal, zero value).
C2_IdentityShortCircuit ==
    (cpc = "done" /\ ValidAmount(amount) /\ src = dst)
        => result = Return(amount)

C2_Witness ==
    /\ cpc = "done" /\ amount = Fin(1, 2)
    /\ code_from # code_to /\ src = dst /\ src = USD
    /\ Len(rates) = 1 /\ rates[1].CharCode = USD /\ IsZero(rates[1].Nominal)
    /\ result = Return(amount)

PositiveTable(df) ==
    \A i \in 1..Len(df) : Gt0(df[i].Nominal) /\ Gt0(df[i].Value)

\* C3: for a valid amount A and two distinct codes X, Y of a table whose
\* entries all have nominal > 0 and value > 0, the result r is returned
\* unrounded and satisfies r * value(Y) * nominal(X) = A * value(X) * nominal(Y);
\* with USD {1, 90}, HUF {100, 25}, RUB {1, 1}: 100 USD -> RUB = 9000 and
\* 100 USD -> HUF = 36000.
C3_PivotFormula ==
    (/\ cpc = "done" /\ ValidAmount(amount) /\ src # dst
     /\ IsRateTable(rates) /\ PositiveTable(rates)
     /\ InIndex(rates, src) /\ InIndex(rates, dst))
        => LET x == EntryOf(rates, src)
               y == EntryOf(rates, dst)
           IN  /\ Returned(result)
               /\ FMul(FMul(result.val, y.Value), x.Nominal)
                    = FMul(FMul(amount, x.Value), y.Nominal)
               /\ (amount = Int2F(100) /\ x = Row(USD, Int2F(1), "name", Int2F(90)))
                    => /\ y = Row(RUB, Int2F(1), "name", Int2F(1))
                            => result.val = Int2F(9000)
                       /\ y = Row(HUF, Int2F(100), "name", Int2F(25))
                            => result.val = Int2F(36000)

C3_Witness ==
    /\ cpc = "done" /\ amount = Int2F(100) /\ src = USD /\ dst = HUF
    /\ rates = <<Row(USD, Int2F(1), "name", Int2F(90)),
                 Row(HUF, Int2F(100), "name", Int2F(25))>>
    /\ result = Return(Int2F(36000))

\* C9: for every table, also one that breaks the table invariants, and two
\* distinct codes in it, convert never divides by zero: a zero or negative
\* nominal of either currency, or a zero unit price of the target, is a
\* ConversionError; otherwise (valid amount) a number is returned.
C9_NoDivisionByZero ==
    (/\ cpc = "done" /\ src # dst /\ IsRateTable(rates)
     /\ InIndex(rates, src) /\ InIndex(rates, dst))
        => LET x == EntryOf(rates, src)
               y == EntryOf(rates, dst)
               degenerate == \/ Le0(x.Nominal) \/ Le0(y.Nominal)
                             \/ IsZero(y.Value)
           IN  /\ ~Raised(result, "ZeroDivisionError")
               /\ degenerate => Raised(result, "ConversionError")
               /\ (~degenerate /\ ValidAmount(amount))
                     => Returned(result) /\ IsFin(result.val)

C9_Witness ==
    /\ cpc = "done" /\ ValidAmount(amount) /\ src = USD /\ dst = HUF
    /\ IsRateTable(rates) /\ InIndex(rates, src) /\ InIndex(rates, dst)
    /\ Gt0(EntryOf(rates, src).Nominal)
    /\ Gt0(EntryOf(rates, dst).Nominal) /\ IsZero(EntryOf(rates, dst).Value)
    /\ result = Raise("ConversionError", <<"zero rate", HUF>>)

====
